---- MODULE Spec2Model ----
(***************************************************************************)
(* The game engine of src/SnakeGamePython/Snake.py (class SnakeGame): the  *)
(* snake, the food, the direction, the score, the two flags and the Tk     *)
(* timer callbacks that drive game_loop.  Cells are pixel coordinates      *)
(* <<x, y>>, multiples of GRID_SIZE, exactly as the code stores them.      *)
(* Drawing (canvas, labels, button states) holds no game state and is left *)
(* out.                                                                    *)
(*                                                                         *)
(* Every method is taken as callable in any state: the button states only  *)
(* narrow which calls the window can make.                                 *)
(*                                                                         *)
(* Spec and SpecMidGame share the same actions:                            *)
(*   Spec         starts in the state the constructor leaves.              *)
(*   SpecMidGame  starts in any well-formed state of a running game.       *)
(* From the constructor's state the tick made by start_game always         *)
(* collides (claims C1, C2), so no running game is observable under Spec;  *)
(* the laws of move_snake, check_collisions, place_food and                *)
(* change_direction are therefore checked from every well-formed running   *)
(* state, which is the induction step of an invariance proof.              *)
(*   SpecNearFull starts a running game on a nearly full board and steps   *)
(* through place_food's loop pass by pass; in the other two place_food is  *)
(* the set of cells the loop can return.                                   *)
(***************************************************************************)
EXTENDS Integers, Sequences, FiniteSets, TLC

\* ---- bounds of the model (the program has a 30 x 20 grid) ----
WidthCells == 4
HeightCells == 2
MaxLen == 4
MaxStale == 1

\* ---- program constants ----
GRID_SIZE == 20
WIDTH == WidthCells * GRID_SIZE
HEIGHT == HeightCells * GRID_SIZE

Directions == {"Up", "Down", "Left", "Right"}

\* random.randint(0, WIDTH // GRID_SIZE - 1) * GRID_SIZE, and the same for y
Cells == {<<cx * GRID_SIZE, cy * GRID_SIZE>> :
            cx \in 0..((WIDTH \div GRID_SIZE) - 1),
            cy \in 0..((HEIGHT \div GRID_SIZE) - 1)}

None == <<>>

Range(s) == {s[i] : i \in 1..Len(s)}

\* deque.appendleft, deque.pop (drops the right end)
appendleft(s, e) == <<e>> \o s
pop(s) == SubSeq(s, 1, Len(s) - 1)

VARIABLES snake, food, direction, score, game_over_state, game_running,
          game_loop_id, stale, op, key, result

vars == <<snake, food, direction, score, game_over_state, game_running,
          game_loop_id, stale, op, key, result>>

\* The object's fields as one record, so that a method is an operator from
\* the fields before the call to the possible fields after it.
Fields == [snake |-> snake, food |-> food, direction |-> direction,
           score |-> score, game_over_state |-> game_over_state,
           game_running |-> game_running, game_loop_id |-> game_loop_id,
           stale |-> stale, result |-> "none"]

\* master.after(GAME_SPEED, self.game_loop): one more pending callback; the
\* attribute game_loop_id now names it, and a callback it named before, if
\* still pending, stays pending with no name left to cancel it by.
after(g) ==
  [g EXCEPT !.game_loop_id = "pending",
            !.stale = IF g.game_loop_id = "pending" THEN @ + 1 ELSE @]

\* master.after_cancel(self.game_loop_id): removes the named callback if it
\* is still pending, and is harmless otherwise.
after_cancel(g) ==
  [g EXCEPT !.game_loop_id = IF @ = "pending" THEN "spent" ELSE @]

\* place_food: the cells the rejection loop can return.
\* (a place_food without the test of line 208)
place_food_on_snake(s) == Cells
place_food(s) == {c \in Cells : c \notin Range(s)}

\* reset_game, lines 94-98: three appendleft calls.
head_x == ((WIDTH \div 2) \div GRID_SIZE) * GRID_SIZE
head_y == ((HEIGHT \div 2) \div GRID_SIZE) * GRID_SIZE
\* (the segment offset without the factor GRID_SIZE)
InitialSegment_unscaled(i) == <<head_x - i, head_y>>
InitialSegment(i) == <<head_x - i * GRID_SIZE, head_y>>
InitialSnake ==
  appendleft(appendleft(appendleft(<<>>, InitialSegment(0)),
                        InitialSegment(1)), InitialSegment(2))

\* (reset_game without line 88: a running game is not stopped)
reset_game_keeps_running(g, initial_setup) ==
  LET g1 == IF g.game_running /\ ~initial_setup THEN after_cancel(g) ELSE g
  IN {[g1 EXCEPT !.snake = InitialSnake, !.food = f, !.direction = "Right",
                 !.score = 0, !.game_over_state = FALSE] :
        f \in place_food(InitialSnake)}

\* (reset_game without line 101: the score is not reset)
reset_game_keeps_score(g, initial_setup) ==
  LET g1 == IF g.game_running /\ ~initial_setup
              THEN [after_cancel(g) EXCEPT !.game_running = FALSE]
              ELSE g
  IN {[g1 EXCEPT !.snake = InitialSnake, !.food = f, !.direction = "Right",
                 !.game_over_state = FALSE] :
        f \in place_food(InitialSnake)}

reset_game(g, initial_setup) ==
  LET g1 == IF g.game_running /\ ~initial_setup
              THEN [after_cancel(g) EXCEPT !.game_running = FALSE]
              ELSE g
  IN {[g1 EXCEPT !.snake = InitialSnake, !.food = f, !.direction = "Right",
                 !.score = 0, !.game_over_state = FALSE] :
        f \in place_food(InitialSnake)}

\* move_snake, lines 145-157
NewHead(head, d) ==
  CASE d = "Up" -> <<head[1], head[2] - GRID_SIZE>>
    [] d = "Down" -> <<head[1], head[2] + GRID_SIZE>>
    [] d = "Left" -> <<head[1] - GRID_SIZE, head[2]>>
    [] d = "Right" -> <<head[1] + GRID_SIZE, head[2]>>

\* (check_collisions without the self-collision test)
check_collisions_walls_only(head, s) ==
  ~(0 <= head[1] /\ head[1] < WIDTH /\ 0 <= head[2] /\ head[2] < HEIGHT)

\* (check_collisions with <= for < in the wall test)
check_collisions_off_by_one(head, s) ==
  \/ ~(0 <= head[1] /\ head[1] <= WIDTH /\ 0 <= head[2] /\ head[2] <= HEIGHT)
  \/ head \in Range(SubSeq(s, 2, Len(s)))

\* (check_collisions that leaves the tail out: list(self.snake)[1:-1])
check_collisions_skip_tail(head, s) ==
  \/ ~(0 <= head[1] /\ head[1] < WIDTH /\ 0 <= head[2] /\ head[2] < HEIGHT)
  \/ head \in Range(SubSeq(s, 2, Len(s) - 1))

check_collisions(head, s) ==
  \/ ~(0 <= head[1] /\ head[1] < WIDTH /\ 0 <= head[2] /\ head[2] < HEIGHT)
  \/ head \in Range(SubSeq(s, 2, Len(s)))

\* (game_over without line 235)
game_over_keeps_running(g) == [g EXCEPT !.game_over_state = TRUE]

game_over(g) ==
  [g EXCEPT !.game_over_state = TRUE, !.game_running = FALSE]

\* move_snake, lines 164-170: the new head is the food.
grow(g, new_head) ==
  LET grown == appendleft(g.snake, new_head)
  IN {[g EXCEPT !.snake = grown, !.score = @ + 1, !.food = f,
                !.result = "ate"] : f \in place_food(grown)}

\* (the else branch without self.snake.pop())
slide_without_pop(g, new_head) ==
  {[g EXCEPT !.snake = appendleft(g.snake, new_head), !.result = "moved"]}

\* move_snake, lines 164 and 171-172: the new head is not the food.
slide(g, new_head) ==
  {[g EXCEPT !.snake = pop(appendleft(g.snake, new_head)),
             !.result = "moved"]}

\* (move_snake adding the new head before it checks for collisions)
move_snake_append_first(g) ==
  IF g.game_over_state \/ ~g.game_running
    THEN {[g EXCEPT !.result = "idle"]}
    ELSE LET new_head == NewHead(g.snake[1], g.direction)
             g2 == [g EXCEPT !.snake = appendleft(g.snake, new_head)]
         IN IF check_collisions(new_head, g.snake)
              THEN {[game_over(g2) EXCEPT !.result = "game-over"]}
              ELSE IF new_head = g.food
                THEN grow(g, new_head)
                ELSE slide(g, new_head)

move_snake(g) ==
  IF g.game_over_state \/ ~g.game_running
    THEN {[g EXCEPT !.result = "idle"]}
    ELSE LET new_head == NewHead(g.snake[1], g.direction)
         IN IF check_collisions(new_head, g.snake)
              THEN {[game_over(g) EXCEPT !.result = "game-over"]}
              ELSE IF new_head = g.food
                THEN grow(g, new_head)
                ELSE slide(g, new_head)

game_loop(g) ==
  IF ~g.game_over_state /\ g.game_running
    THEN {after(h) : h \in move_snake(g)}
    ELSE IF g.game_over_state
      THEN {IF g.game_loop_id # "unset" THEN after_cancel(g) ELSE g}
      ELSE {g}

\* (start_game without the test of line 115)
start_game_unguarded(g) ==
  game_loop([g EXCEPT !.game_running = TRUE, !.game_over_state = FALSE])

start_game(g) ==
  IF ~g.game_running
    THEN game_loop([g EXCEPT !.game_running = TRUE,
                             !.game_over_state = FALSE])
    ELSE {g}

\* (change_direction without the reversal test)
Turn_unchecked(new_direction, d) == new_direction

\* change_direction, lines 221-228: the direction after the call.
Turn(new_direction, d) ==
  IF new_direction = "Left" /\ d # "Right" THEN new_direction
  ELSE IF new_direction = "Right" /\ d # "Left" THEN new_direction
  ELSE IF new_direction = "Up" /\ d # "Down" THEN new_direction
  ELSE IF new_direction = "Down" /\ d # "Up" THEN new_direction
  ELSE d

\* (change_direction without the test of lines 217-218)
change_direction_unguarded(g, new_direction) ==
  [g EXCEPT !.direction = Turn(new_direction, g.direction)]

change_direction(g, new_direction) ==
  IF g.game_over_state \/ ~g.game_running
    THEN g
    ELSE [g EXCEPT !.direction = Turn(new_direction, g.direction)]

\* ---- the state machine ----
Blank == [snake |-> <<>>, food |-> None, direction |-> "Right", score |-> 0,
          game_over_state |-> FALSE, game_running |-> FALSE,
          game_loop_id |-> "unset", stale |-> 0, result |-> "none"]

Set(g, o, k) ==
  /\ Len(g.snake) <= MaxLen
  /\ g.stale <= MaxStale
  /\ snake' = g.snake
  /\ food' = g.food
  /\ direction' = g.direction
  /\ score' = g.score
  /\ game_over_state' = g.game_over_state
  /\ game_running' = g.game_running
  /\ game_loop_id' = g.game_loop_id
  /\ stale' = g.stale
  /\ result' = g.result
  /\ op' = o
  /\ key' = k

Init ==
  \E g \in reset_game(Blank, TRUE) :
    /\ snake = g.snake
    /\ food = g.food
    /\ direction = g.direction
    /\ score = g.score
    /\ game_over_state = g.game_over_state
    /\ game_running = g.game_running
    /\ game_loop_id = g.game_loop_id
    /\ stale = g.stale
    /\ result = "none"
    /\ op = "__init__"
    /\ key = "none"

ResetGame == \E g \in reset_game(Fields, FALSE) : Set(g, "reset_game", "none")

StartGame == \E g \in start_game(Fields) : Set(g, "start_game", "none")

ChangeDirection(d) == Set(change_direction(Fields, d), "change_direction", d)

MoveSnake == \E g \in move_snake(Fields) : Set(g, "move_snake", "none")

\* A pending timer callback fires: the one game_loop_id names, or a stale one.
Fired ==
  (IF game_loop_id = "pending"
     THEN {[Fields EXCEPT !.game_loop_id = "spent"]} ELSE {})
  \cup (IF stale > 0 THEN {[Fields EXCEPT !.stale = @ - 1]} ELSE {})

GameLoop == \E g0 \in Fired : \E g \in game_loop(g0) : Set(g, "game_loop", "none")

Next ==
  \/ ResetGame
  \/ StartGame
  \/ \E d \in Directions : ChangeDirection(d)
  \/ MoveSnake
  \/ GameLoop

Spec == Init /\ [][Next]_vars

\* ---- a running game in any well-formed state ----
Neighbours(c) == {NewHead(c, d) : d \in Directions} \cap Cells

\* The snakes of n cells: consecutive cells adjacent, no cell twice.
RECURSIVE Bodies(_)
Bodies(n) ==
  IF n = 1
    THEN {<<c>> : c \in Cells}
    ELSE UNION {{Append(s, c) : c \in Neighbours(s[n - 1]) \ Range(s)} :
                  s \in Bodies(n - 1)}

\* What start_game and the successful ticks after it leave: the flags of
\* a running game, the next callback pending, a snake of score + 3 cells
\* whose direction is the one it last moved in, food off the snake.
InitMidGame ==
  \E n \in 3..MaxLen : \E s \in Bodies(n) : \E d \in Directions :
    \E f \in place_food(s) :
      /\ NewHead(s[2], d) = s[1]
      /\ snake = s
      /\ food = f
      /\ direction = d
      /\ score = n - 3
      /\ game_over_state = FALSE
      /\ game_running = TRUE
      /\ game_loop_id = "pending"
      /\ stale = 0
      /\ result = "none"
      /\ op = "none"
      /\ key = "none"

SpecMidGame == InitMidGame /\ [][Next]_vars

\* ---- place_food as the loop it is, on a board the snake nearly fills ----
\* The snake starts NearFull cells, or fewer, short of filling the board.
NearFull == 2

NCells == Cardinality(Cells)

\* The assignments of Set, for snakes of any length.
Leave(g, o, k) ==
  /\ snake' = g.snake
  /\ food' = g.food
  /\ direction' = g.direction
  /\ score' = g.score
  /\ game_over_state' = g.game_over_state
  /\ game_running' = g.game_running
  /\ game_loop_id' = g.game_loop_id
  /\ stale' = g.stale
  /\ result' = g.result
  /\ op' = o
  /\ key' = k

InitNearFull ==
  \E n \in (NCells - NearFull)..(NCells - 1) : \E s \in Bodies(n) :
    \E d \in Directions : \E f \in place_food(s) :
      /\ NewHead(s[2], d) = s[1]
      /\ snake = s
      /\ food = f
      /\ direction = d
      /\ score = n - 3
      /\ game_over_state = FALSE
      /\ game_running = TRUE
      /\ game_loop_id = "pending"
      /\ stale = 0
      /\ result = "none"
      /\ op = "none"
      /\ key = "none"

\* While op = "place_food" the handler that called place_food is inside
\* its loop and no other handler runs (one thread).
InPlaceFood == op = "place_food"

\* move_snake up to its call of place_food (lines 142-169), or to its
\* return when it does not eat.
TickToPlaceFood ==
  /\ ~InPlaceFood
  /\ LET new_head == NewHead(snake[1], direction)
         eats == /\ ~game_over_state /\ game_running
                 /\ ~check_collisions(new_head, snake)
                 /\ new_head = food
     IN IF eats
          THEN Leave([Fields EXCEPT !.snake = appendleft(snake, new_head),
                                    !.score = @ + 1, !.result = "ate"],
                     "place_food", "none")
          ELSE \E g \in move_snake(Fields) : Leave(g, "move_snake", "none")

\* reset_game up to its call of place_food (lines 85-103).
ResetToPlaceFood ==
  /\ ~InPlaceFood
  /\ LET g1 == IF game_running
                 THEN [after_cancel(Fields) EXCEPT !.game_running = FALSE]
                 ELSE Fields
     IN Leave([g1 EXCEPT !.snake = InitialSnake, !.food = None,
                         !.direction = "Right", !.score = 0,
                         !.game_over_state = FALSE],
              "place_food", "none")

TurnNearFull(d) ==
  /\ ~InPlaceFood
  /\ Leave(change_direction(Fields, d), "change_direction", d)

\* One pass of the loop, lines 205-210, with the cell randint drew: a cell
\* of the snake is rejected and the loop goes round again.
PlaceFoodReject(c) ==
  /\ InPlaceFood
  /\ c \in Range(snake)
  /\ UNCHANGED vars

\* A free cell becomes the food and the loop, then the handler, returns.
PlaceFoodAccept(c) ==
  /\ InPlaceFood
  /\ c \notin Range(snake)
  /\ food' = c
  /\ op' = IF result = "ate" THEN "move_snake" ELSE "reset_game"
  /\ UNCHANGED <<snake, direction, score, game_over_state, game_running,
                 game_loop_id, stale, key, result>>

NextNearFull ==
  \/ TickToPlaceFood
  \/ ResetToPlaceFood
  \/ \E d \in Directions : TurnNearFull(d)
  \/ \E c \in Cells : PlaceFoodReject(c)
  \/ \E c \in Cells : PlaceFoodAccept(c)

\* random.randint is fair: a cell that stays free is drawn in the end.
SpecNearFull ==
  /\ InitNearFull
  /\ [][NextNearFull]_vars
  /\ SF_vars(\E c \in Cells : PlaceFoodAccept(c))

\* ---- the claims ----
Opposite(d) ==
  CASE d = "Up" -> "Down"
    [] d = "Down" -> "Up"
    [] d = "Left" -> "Right"
    [] d = "Right" -> "Left"

Centre == <<head_x, head_y>>
LeftOf(c, k) == <<c[1] - k * GRID_SIZE, c[2]>>
RightOf(c) == <<c[1] + GRID_SIZE, c[2]>>

\* The call just made ran move_snake past its running check (a tick that
\* was not idle), wherever the call came from.
Ticked == result' \in {"moved", "ate", "game-over"}

\* C1: after reset_game the snake is three cells in one row, its head
\* snake[0] (the first element) at the centre cell and the other two
\* segments to the left of it, direction Right, score 0, both flags false.
C1_ResetHeadAtCentre ==
  op = "reset_game" =>
    /\ snake = <<Centre, LeftOf(Centre, 1), LeftOf(Centre, 2)>>
    /\ direction = "Right"
    /\ score = 0
    /\ ~game_over_state
    /\ ~game_running

\* C2: after reset_game followed by start_game, the first tick (start_game
\* makes it through game_loop) does not end the game: the head advances one
\* cell to the right; off the food the length stays 3 and the score 0, on
\* the food the score is 1 and the length 4; the game stays running.
C2_FirstTickMoves ==
  [][(op = "reset_game" /\ op' = "start_game") =>
       /\ game_running' /\ ~game_over_state'
       /\ snake'[1] = RightOf(snake[1])
       /\ IF RightOf(snake[1]) = food
            THEN score' = 1 /\ Len(snake') = 4 /\ result' = "ate"
            ELSE score' = 0 /\ Len(snake') = 3 /\ result' = "moved"]_vars

\* C3: in every reachable state the food cell is not a cell of the snake.
C3_FoodNotOnSnake == food \notin Range(snake)

\* C3 witness: the snake has just eaten and new food has been placed.
C3_Witness == result = "ate" /\ op = "game_loop" /\ Len(snake) = 4

\* C4: in every reachable state no cell occurs twice in the snake.
C4_NoDuplicateCells ==
  \A i, j \in 1..Len(snake) : i # j => snake[i] # snake[j]

\* C4 witness: a snake that has grown has just had a collision with its
\* own body detected.
C4_Witness ==
  /\ result = "game-over"
  /\ score > 0
  /\ NewHead(snake[1], direction) \in Range(snake)

\* C5: growth law.  In a tick whose new head is the food before the tick
\* (and that is not idle) the score and the length both grow by exactly
\* one; in every other tick (move, collision, idle) both are unchanged.
C5_GrowthLaw ==
  [][result' # "none" =>
       IF Ticked /\ NewHead(snake[1], direction) = food
         THEN score' = score + 1 /\ Len(snake') = Len(snake) + 1
         ELSE score' = score /\ Len(snake') = Len(snake)]_vars

\* C5 witness: a tick of the timer has eaten: score 1, four cells.
C5_Witness == result = "ate" /\ score = 1 /\ Len(snake) = 4

\* C6: reversal law.  While the game is running, change_direction(d) with
\* d the opposite of the current direction leaves the direction as it was,
\* and with any other d leaves the direction equal to d.
C6_ReversalLaw ==
  [][(op' = "change_direction" /\ game_running /\ ~game_over_state) =>
       IF key' = Opposite(direction)
         THEN direction' = direction
         ELSE direction' = key']_vars

\* C6 witness: a running game has just dropped a request for the opposite
\* direction.
C6_Witness ==
  /\ op = "change_direction"
  /\ game_running
  /\ key = Opposite(direction)

C8_WallEndsGame ==
  [][(Ticked /\ NewHead(snake[1], direction) \notin Cells) =>
       (game_over_state' /\ ~game_running' /\ result' = "game-over")]_vars

\* C8 witness: the game has just ended on a new head outside the grid.
C8_Witness ==
  /\ result = "game-over"
  /\ op = "game_loop"
  /\ NewHead(snake[1], direction) \notin Cells

C10_CollisionFrame ==
  [][result' = "game-over" =>
       /\ snake' = snake /\ food' = food /\ score' = score
       /\ direction' = direction
       /\ game_over_state' /\ ~game_running']_vars

\* C10 witness: a game with a score has just ended on a tick of the timer.
C10_Witness ==
  /\ result = "game-over"
  /\ op = "game_loop"
  /\ score = 1
  /\ game_over_state /\ ~game_running

\* The six fields of the game state are left as they were.
GameUnchanged ==
  /\ snake' = snake /\ food' = food /\ direction' = direction
  /\ score' = score
  /\ game_over_state' = game_over_state /\ game_running' = game_running

\* C11: when game_over_state is true or game_running is false, a tick
\* (move_snake called directly or the timer's game_loop) and
\* change_direction(d) for every d change none of snake, food, direction,
\* score, game_over_state, game_running.
C11_IdleCallsChangeNothing ==
  [][(op' \in {"move_snake", "game_loop", "change_direction"}
      /\ (game_over_state \/ ~game_running)) => GameUnchanged]_vars

\* C11 witness: an arrow key has just been pressed in a game that ended
\* with a score.
C11_Witness ==
  /\ op = "change_direction"
  /\ game_over_state
  /\ score = 1
  /\ key # direction

\* C12: start_game called while the game is running changes no game
\* state, makes no tick and schedules no callback.
C12_StartWhileRunningNoOp ==
  [][(op' = "start_game" /\ game_running) =>
       /\ GameUnchanged
       /\ result' = "none"
       /\ game_loop_id' = game_loop_id /\ stale' = stale]_vars

\* C12 witness: start_game has just been called on a running game.
C12_Witness == op = "start_game" /\ game_running /\ result = "none"

\* The fields the constructor can leave (any food).
Constructed == reset_game(Blank, TRUE)

\* C13: reset_game can be called in every reachable state (a running game
\* has the game_loop_id that line 87 reads) and leaves the state the
\* constructor leaves, apart from the food; a second reset_game right
\* after one leaves snake, direction, score and both flags the same.
C13_ResetCanonical ==
  [][/\ game_running => game_loop_id # "unset"
     /\ op' = "reset_game" =>
          /\ \E g \in Constructed :
               /\ snake' = g.snake /\ direction' = g.direction
               /\ score' = g.score
               /\ game_over_state' = g.game_over_state
               /\ game_running' = g.game_running
          /\ op = "reset_game" =>
               /\ snake' = snake /\ direction' = direction
               /\ score' = score
               /\ game_over_state' = game_over_state
               /\ game_running' = game_running]_vars

\* C13 witness: reset_game has just stopped a running game (it cancelled
\* the pending callback) and no timer fired after it.
C13_Witness ==
  /\ op = "reset_game"
  /\ game_loop_id = "spent"
  /\ stale = 0
  /\ ~game_running

\* C14: once a tick has ended the game, no call makes game_running true
\* again before a reset_game; game_running only ever becomes true by
\* start_game on the fresh state (score 0, three cells, direction Right).
C14_RunningOnlyAfterReset ==
  [][/\ game_over_state => ~game_running'
     /\ (~game_running /\ game_running') =>
          /\ op' = "start_game"
          /\ score = 0 /\ Len(snake) = 3 /\ direction = "Right"]_vars

\* C14 witness: start_game was called, with no reset_game, on a game that
\* had ended with a score, and the game is not running.
C14_Witness ==
  /\ op = "start_game"
  /\ score = 1
  /\ result = "game-over"
  /\ ~game_running

Abs(n) == IF n < 0 THEN 0 - n ELSE n

\* C15: in every reachable state the snake has at least one cell and each
\* two consecutive cells are one cell apart (Manhattan distance).
C15_ConsecutiveAdjacent ==
  /\ Len(snake) >= 1
  /\ \A i \in 1..(Len(snake) - 1) :
       Abs(snake[i][1] - snake[i + 1][1])
         + Abs(snake[i][2] - snake[i + 1][2]) = GRID_SIZE

\* C15 witness: the timer has just moved a snake that has a bend right
\* behind its head.
C15_Witness ==
  /\ op = "game_loop"
  /\ result = "moved"
  /\ snake[1][1] # snake[2][1]
  /\ snake[2][2] # snake[3][2]

C17_AtMostOnePending ==
  (IF game_loop_id = "pending" THEN 1 ELSE 0) + stale <= 1

\* C18: game_over_state and game_running are never both true.
C18_NotOverAndRunning == ~(game_over_state /\ game_running)

\* C18 witness: start_game set game_running, and the tick it made ended
\* the game.
C18_Witness ==
  /\ op = "start_game"
  /\ result = "game-over"
  /\ game_over_state
  /\ score = 0

\* C19: in every reachable state the score is the length of the snake
\* minus 3.
C19_ScoreIsLengthMinus3 == score = Len(snake) - 3

\* C19 witness: a tick called directly has just eaten.
C19_Witness ==
  /\ op = "move_snake"
  /\ result = "ate"
  /\ Len(snake) = 4

====
